---------------------------- MODULE Spec2Model ----------------------------
(***************************************************************************)
(* OAuth 2.0 authorization server (authorization code flow with PKCE) of   *)
(* main.go: the two stores, the mutex, the wall clock and the three        *)
(* handlers handleAuthorize, handleToken and handleUserInfo, each cut into *)
(* steps at its accesses to shared state (mu, the stores, time.Now).       *)
(*                                                                         *)
(* Time is counted in units of ten minutes.  uuid.New() is a source of     *)
(* fresh values: the n-th value it returns is the number n.                *)
(***************************************************************************)
EXTENDS Integers, FiniteSets, Sequences, TLC

(* ------------------------------ bounds -------------------------------- *)

\* Number of requests the server handles at the same time (goroutines).
NProcs == 2

\* Number of requests the server receives in one behaviour.
MaxRequests == 3

\* Number of times the clock advances in one behaviour.
MaxTicks == 2

(* ------------------------- program constants -------------------------- *)

ClientID == "demo-client"

RedirectURI == "http://localhost:8080/cb"

\* 10 * time.Minute, in units of ten minutes.
CodeTTL == 1

\* 1 * time.Hour, in units of ten minutes.
TokenTTL == 6

\* "expires_in" of the token response, in seconds.
ExpiresIn == 3600

(* --------------------------- input domains ---------------------------- *)

Procs == 1..NProcs

\* Values of uuid.New(); 0 stands for a string that is no issued uuid.
Ids == 1..MaxRequests

IdsOrNone == 0..MaxRequests

Verifiers == {"secret-verifier-string", "another-verifier-string"}

Challenges == {"", "LQZxoESZIZMv7j_6u2jBWnivm0jsDelp3OLcKeo64S4"}

ClientIds == {ClientID, "other-client"}

RedirectUris == {RedirectURI, "http://evil.example/cb"}

ResponseTypes == {"code", "token"}

Methods == {"S256", "plain"}

States == {"xyz123", "abc456"}

HttpMethods == {"POST", "GET"}

GrantTypes == {"authorization_code", "client_credentials"}

\* Query of GET /authorize.
AuthorizeRequests ==
    [client_id : ClientIds, redirect_uri : RedirectUris,
     response_type : ResponseTypes, code_challenge : Challenges,
     code_challenge_method : Methods, state : States]

\* POST /token: method, whether the body parses as a form, and the form.
TokenRequests ==
    [method : HttpMethods, form_ok : BOOLEAN, grant_type : GrantTypes,
     code : IdsOrNone, code_verifier : Verifiers, client_id : ClientIds]

\* Authorization header of GET /userinfo, split at the length of "Bearer ".
UserInfoRequests ==
    [prefix : {"", "Basic ", "Bearer "}, rest : IdsOrNone]

(* ------------------------------ values -------------------------------- *)

\* The zero value of AuthCode, which a map lookup yields for a missing key.
ZeroAuthCode ==
    [Code |-> 0, ClientID |-> "", RedirectURI |-> "", CodeChallenge |-> "",
     CodeChallengeMethod |-> "", ExpiresAt |-> -1]

\* The zero value of AccessToken.
ZeroAccessToken == [Token |-> 0, ClientID |-> "", ExpiresAt |-> -1]

\* The local variables of a handler that live across its steps; handler
\* names the handler, nth numbers the lookups handleToken made of one code
\* liveAtTake tells whether the code it found had not expired at the time
\* of its delete, and afterReject whether an earlier /token request that
\* named the code was rejected before its lookup (history).
NoLocals ==
    [code |-> 0, verifier |-> "", clientID |-> "", challenge |-> "",
     method |-> "", state |-> "", token |-> 0, exists |-> FALSE,
     authCode |-> ZeroAuthCode, accessToken |-> ZeroAccessToken,
     handler |-> "", nth |-> 0, liveAtTake |-> FALSE, afterReject |-> FALSE]

\* What a handler wrote to its http.ResponseWriter: the status, the body
\* (of a redirect the target, of a token response the token_type), the code
\* or token in it, the state in it and expires_in.
Response(status, body, id, state) ==
    [status |-> status, body |-> body, id |-> id, state |-> state, expires_in |-> 0]

NoResponse == Response(0, "", 0, "")

\* http.Error(w, msg, status) and jsonError(w, err, status).
ErrorResponse(status, err) == Response(status, err, 0, "")

(* ------------------------------- maps --------------------------------- *)

\* make(map[string]T): the map without keys.
EmptyMap == [k \in {} |-> 0]

\* m[key] = value
MapPut(m, key, value) ==
    [k \in DOMAIN m \cup {key} |-> IF k = key THEN value ELSE m[k]]

\* delete(m, key): no effect when key is not in m.
MapDelete(m, key) == [k \in DOMAIN m \ {key} |-> m[k]]

\* v, ok := m[key]: the first result, zero when key is not in m.
MapGet(m, key, zero) == IF key \in DOMAIN m THEN m[key] ELSE zero

(* ------------------------------ PKCE ---------------------------------- *)

\* base64.RawURLEncoding.EncodeToString(sha256.Sum256([]byte(verifier))),
\* tabulated on the verifiers of the model.
S256(verifier) ==
    CASE verifier = "secret-verifier-string"
           -> "LQZxoESZIZMv7j_6u2jBWnivm0jsDelp3OLcKeo64S4"
      [] verifier = "secret-verifier-strinh"
           -> "cHBFmtEN-EIDMlKn2d-pDFOAPGQVFmvd8uHQnxHgLwE"
      [] verifier = "another-verifier-string"
           -> "R3tIDHOoxmi0NC3veID6Sj_NpNGceYKs7BWiXSjnvUc"
      [] verifier = ""
           -> "47DEQpj8HBSa-_TImW-5JCeuQeRkm5NMpJWZG3hSuFU"

\* verifyPKCE that only checks that a challenge was registered.
verifyPKCEAnyVerifier(challenge, verifier) == challenge # ""

verifyPKCE(challenge, verifier) == S256(verifier) = challenge

(* ------------------------------ state --------------------------------- *)

VARIABLES
    codeStore,   \* map[string]AuthCode: a function on the stored codes
    tokenStore,  \* map[string]AccessToken: a function on the stored tokens
    mu,          \* sync.Mutex: 0 when free, else the request holding it
    now,         \* the wall clock time.Now() reads
    ticks,       \* the number of times the clock has advanced
    nextId,      \* the next value of uuid.New()
    pc,          \* where each request stands in its handler
    locals,      \* each request's local variables
    resp,        \* the response of the last request finished on each slot
    started,     \* the number of requests received so far
    issued,      \* history: every AuthCode handleAuthorize stored, by code
    grants,      \* history: for every token stored, the code it was given for
    attempts,    \* history: how often handleToken looked each string up
    found,       \* history: how often such a lookup found an entry
    rejected     \* history: the stored codes named by a /token request that
                 \* was rejected before its lookup

vars ==
    <<codeStore, tokenStore, mu, now, ticks, nextId, pc, locals, resp, started,
      issued, grants, attempts, found, rejected>>

Init ==
    /\ codeStore = EmptyMap
    /\ tokenStore = EmptyMap
    /\ mu = 0
    /\ now = 0
    /\ ticks = 0
    /\ nextId = 1
    /\ pc = [p \in Procs |-> "idle"]
    /\ locals = [p \in Procs |-> NoLocals]
    /\ resp = [p \in Procs |-> NoResponse]
    /\ started = 0
    /\ issued = EmptyMap
    /\ grants = EmptyMap
    /\ attempts = [c \in IdsOrNone |-> 0]
    /\ found = [c \in IdsOrNone |-> 0]
    /\ rejected = {}

(* ------------------------------ common --------------------------------- *)

\* The server accepts a connection on slot p, the lowest idle slot (the
\* slots are interchangeable).
Accept(p) ==
    /\ pc[p] = "idle"
    /\ \A r \in Procs : r < p => pc[r] # "idle"
    /\ started < MaxRequests
    /\ started' = started + 1

\* Lock that does not wait for mu to be free.
LockNoWait(p) == mu' = p

\* mu.Lock(): returns when mu is free, and then p holds it.
Lock(p) ==
    /\ mu = 0
    /\ mu' = p

\* mu.Unlock(): a fatal error when mu is not locked.
Unlock(p) ==
    /\ mu # 0
    /\ mu' = 0

\* The uuids a handler has stored and not yet sent in its response.
Undisclosed ==
    {locals[p].code : p \in {r \in Procs : pc[r] \in {"a_unlock", "a_redirect"}}}
        \cup {locals[p].token : p \in {r \in Procs : pc[r] = "t_unlock2"}}

\* The strings a client can name as a code or a token: 0, and the uuids the
\* server has sent so far (a uuid is not guessed before a response carries
\* it).
Nameable == {0} \cup ((DOMAIN issued \cup DOMAIN grants) \ Undisclosed)

\* After that also holds at the instant t.
AfterOrAt(t) == now >= t

\* time.Now().After(t)
After(t) == now > t

(* --------------------------- handleAuthorize --------------------------- *)

\* AuthorizeValidate with the redirect_uri checked before the client_id.
AuthorizeValidateRedirectFirst(q) ==
    IF q.redirect_uri # RedirectURI THEN "Invalid redirect_uri"
    ELSE IF q.client_id # ClientID THEN "Invalid client_id"
    ELSE IF q.response_type # "code" THEN "Unsupported response_type"
    ELSE IF q.code_challenge = "" \/ q.code_challenge_method # "S256"
         THEN "PKCE required (code_challenge + S256)"
    ELSE ""

\* The validation of handleAuthorize: the message of the first check that
\* fails, "" when the request passes them all.
AuthorizeValidate(q) ==
    IF q.client_id # ClientID THEN "Invalid client_id"
    ELSE IF q.redirect_uri # RedirectURI THEN "Invalid redirect_uri"
    ELSE IF q.response_type # "code" THEN "Unsupported response_type"
    ELSE IF q.code_challenge = "" \/ q.code_challenge_method # "S256"
         THEN "PKCE required (code_challenge + S256)"
    ELSE ""

\* The locals of handleAuthorize once the request is validated and
\* uuid.New() returned id.
AuthorizeLocals(q, id) ==
    [NoLocals EXCEPT !.handler = "authorize", !.code = id,
                     !.challenge = q.code_challenge,
                     !.method = q.code_challenge_method,
                     !.state = q.state]

\* A request arrives: validation, and with a valid request uuid.New().
AuthorizeBegin(p, q) ==
    /\ Accept(p)
    /\ IF AuthorizeValidate(q) # ""
       THEN /\ resp' = [resp EXCEPT ![p] = ErrorResponse(400, AuthorizeValidate(q))]
            /\ locals' = [locals EXCEPT ![p] = NoLocals]
            /\ UNCHANGED <<pc, nextId>>
       ELSE /\ nextId' = nextId + 1
            /\ locals' = [locals EXCEPT ![p] = AuthorizeLocals(q, nextId)]
            /\ resp' = [resp EXCEPT ![p] = NoResponse]
            /\ pc' = [pc EXCEPT ![p] = "a_store"]
    /\ UNCHANGED <<codeStore, tokenStore, mu, now, ticks, issued, grants, attempts, found, rejected>>

\* NewAuthCode that expires at once.
NewAuthCodeNoTTL(l, t) ==
    [Code |-> l.code, ClientID |-> ClientID, RedirectURI |-> RedirectURI,
     CodeChallenge |-> l.challenge, CodeChallengeMethod |-> l.method,
     ExpiresAt |-> t]

\* The AuthCode that handleAuthorize stores at time t.
NewAuthCode(l, t) ==
    [Code |-> l.code, ClientID |-> ClientID, RedirectURI |-> RedirectURI,
     CodeChallenge |-> l.challenge, CodeChallengeMethod |-> l.method,
     ExpiresAt |-> t + CodeTTL]

\* mu.Lock(); codeStore[code] = AuthCode{...}
AuthorizeStore(p) ==
    /\ pc[p] = "a_store"
    /\ Lock(p)
    /\ codeStore' = MapPut(codeStore, locals[p].code, NewAuthCode(locals[p], now))
    /\ issued' = MapPut(issued, locals[p].code, NewAuthCode(locals[p], now))
    /\ pc' = [pc EXCEPT ![p] = "a_unlock"]
    /\ UNCHANGED <<tokenStore, now, ticks, nextId, locals, resp, started, grants,
                   attempts, found, rejected>>

\* The redirect to RedirectURI?code=<code>&state=<state>.
Redirect(l) == Response(302, RedirectURI, l.code, l.state)

\* mu.Unlock()
AuthorizeUnlock(p) ==
    /\ pc[p] = "a_unlock"
    /\ Unlock(p)
    /\ pc' = [pc EXCEPT ![p] = "a_redirect"]
    /\ UNCHANGED <<codeStore, tokenStore, now, ticks, nextId, locals, resp,
                   started, issued, grants, attempts, found, rejected>>

\* http.Redirect(w, r, redirectURL, http.StatusFound)
AuthorizeRedirect(p) ==
    /\ pc[p] = "a_redirect"
    /\ resp' = [resp EXCEPT ![p] = Redirect(locals[p])]
    /\ pc' = [pc EXCEPT ![p] = "idle"]
    /\ UNCHANGED <<codeStore, tokenStore, mu, now, ticks, nextId, locals,
                   started, issued, grants, attempts, found, rejected>>

(* ----------------------------- handleToken ----------------------------- *)

\* The checks of handleToken before the code is looked up: the response of
\* the first that fails, NoResponse when the request passes them all.
TokenPrecheck(q) ==
    IF q.method # "POST" THEN ErrorResponse(405, "Method not allowed")
    ELSE IF ~q.form_ok THEN ErrorResponse(400, "Failed to parse form")
    ELSE IF q.grant_type # "authorization_code"
         THEN ErrorResponse(400, "unsupported_grant_type")
    ELSE NoResponse

\* The locals of handleToken once the form is read.
TokenLocals(q) ==
    [NoLocals EXCEPT !.handler = "token", !.code = q.code,
                     !.verifier = q.code_verifier, !.clientID = q.client_id]

\* TokenBegin that takes the named code out of the store before its checks.
TokenBeginTake(p, q) ==
    /\ Accept(p)
    /\ q.code \in Nameable
    /\ codeStore' = MapDelete(codeStore, q.code)
    /\ IF TokenPrecheck(q) # NoResponse
       THEN /\ resp' = [resp EXCEPT ![p] = TokenPrecheck(q)]
            /\ locals' = [locals EXCEPT ![p] = NoLocals]
            /\ rejected' = rejected \cup ({q.code} \cap DOMAIN codeStore)
            /\ UNCHANGED pc
       ELSE /\ locals' = [locals EXCEPT ![p] = TokenLocals(q)]
            /\ resp' = [resp EXCEPT ![p] = NoResponse]
            /\ pc' = [pc EXCEPT ![p] = "t_lookup"]
            /\ UNCHANGED rejected
    /\ UNCHANGED <<tokenStore, mu, now, ticks, nextId, issued, grants, attempts, found>>

\* A request arrives: method, form and grant_type.
TokenBegin(p, q) ==
    /\ Accept(p)
    /\ q.code \in Nameable
    /\ IF TokenPrecheck(q) # NoResponse
       THEN /\ resp' = [resp EXCEPT ![p] = TokenPrecheck(q)]
            /\ locals' = [locals EXCEPT ![p] = NoLocals]
            /\ rejected' = rejected \cup ({q.code} \cap DOMAIN codeStore)
            /\ UNCHANGED pc
       ELSE /\ locals' = [locals EXCEPT ![p] = TokenLocals(q)]
            /\ resp' = [resp EXCEPT ![p] = NoResponse]
            /\ pc' = [pc EXCEPT ![p] = "t_lookup"]
            /\ UNCHANGED rejected
    /\ UNCHANGED <<codeStore, tokenStore, mu, now, ticks, nextId, issued, grants, attempts, found>>

\* mu.Lock(); authCode, exists := codeStore[code]
TokenLookup(p) ==
    /\ pc[p] = "t_lookup"
    /\ Lock(p)
    /\ locals' = [locals EXCEPT
           ![p].exists = locals[p].code \in DOMAIN codeStore,
           ![p].authCode = MapGet(codeStore, locals[p].code, ZeroAuthCode),
           ![p].nth = attempts[locals[p].code] + 1,
           ![p].afterReject = locals[p].code \in rejected]
    /\ attempts' = [attempts EXCEPT ![locals[p].code] = @ + 1]
    /\ found' = [found EXCEPT ![locals[p].code] =
                     IF locals[p].code \in DOMAIN codeStore THEN @ + 1 ELSE @]
    /\ pc' = [pc EXCEPT ![p] = "t_delete"]
    /\ UNCHANGED <<codeStore, tokenStore, now, ticks, nextId, resp, started, issued,
                   grants, rejected>>

\* TakeCode without the delete.
TakeCodeKeep(store, code) == store

\* TakeCode that deletes an entry only once it has expired.
TakeCodeIfExpired(store, code) ==
    IF code \in DOMAIN store /\ After(store[code].ExpiresAt)
    THEN MapDelete(store, code)
    ELSE store

\* The code store after handleToken looked code up.
TakeCode(store, code) == MapDelete(store, code)

\* delete(codeStore, code)
TokenDelete(p) ==
    /\ pc[p] = "t_delete"
    /\ codeStore' = TakeCode(codeStore, locals[p].code)
    /\ locals' = [locals EXCEPT ![p].liveAtTake =
                      locals[p].exists /\ now <= locals[p].authCode.ExpiresAt]
    /\ pc' = [pc EXCEPT ![p] = "t_unlock1"]
    /\ UNCHANGED <<tokenStore, mu, now, ticks, nextId, resp, started,
                   issued, grants, attempts, found, rejected>>

\* TokenUnlock1 that returns from the critical section without mu.Unlock().
TokenUnlock1Forgotten(p) ==
    /\ pc[p] = "t_unlock1"
    /\ pc' = [pc EXCEPT ![p] = "t_check"]
    /\ UNCHANGED <<codeStore, tokenStore, mu, now, ticks, nextId, locals, resp,
                   started, issued, grants, attempts, found, rejected>>

\* mu.Unlock() after the lookup
TokenUnlock1(p) ==
    /\ pc[p] = "t_unlock1"
    /\ Unlock(p)
    /\ pc' = [pc EXCEPT ![p] = "t_check"]
    /\ UNCHANGED <<codeStore, tokenStore, now, ticks, nextId, locals, resp, started,
                   issued, grants, attempts, found, rejected>>

\* TokenValidate without the check of exists.
TokenValidateNoExists(l) ==
    IF After(l.authCode.ExpiresAt) THEN ErrorResponse(400, "code_expired")
    ELSE IF l.authCode.ClientID # l.clientID THEN ErrorResponse(401, "invalid_client")
    ELSE IF ~verifyPKCE(l.authCode.CodeChallenge, l.verifier)
         THEN ErrorResponse(400, "invalid_request")
    ELSE NoResponse

\* TokenValidate without the check of the client.
TokenValidateNoClient(l) ==
    IF ~l.exists THEN ErrorResponse(400, "invalid_grant")
    ELSE IF After(l.authCode.ExpiresAt) THEN ErrorResponse(400, "code_expired")
    ELSE IF ~verifyPKCE(l.authCode.CodeChallenge, l.verifier)
         THEN ErrorResponse(400, "invalid_request")
    ELSE NoResponse

\* TokenValidate without the check of the expiry.
TokenValidateNoExpiry(l) ==
    IF ~l.exists THEN ErrorResponse(400, "invalid_grant")
    ELSE IF l.authCode.ClientID # l.clientID THEN ErrorResponse(401, "invalid_client")
    ELSE IF ~verifyPKCE(l.authCode.CodeChallenge, l.verifier)
         THEN ErrorResponse(400, "invalid_request")
    ELSE NoResponse

\* TokenValidate with the PKCE check before the check of the client.
TokenValidatePkceFirst(l) ==
    IF ~l.exists THEN ErrorResponse(400, "invalid_grant")
    ELSE IF After(l.authCode.ExpiresAt) THEN ErrorResponse(400, "code_expired")
    ELSE IF ~verifyPKCE(l.authCode.CodeChallenge, l.verifier)
         THEN ErrorResponse(400, "invalid_request")
    ELSE IF l.authCode.ClientID # l.clientID THEN ErrorResponse(401, "invalid_client")
    ELSE NoResponse

\* The checks of handleToken on what the lookup returned, made at the
\* current time: the response of the first that fails, NoResponse when the
\* exchange is granted.
TokenValidate(l) ==
    IF ~l.exists THEN ErrorResponse(400, "invalid_grant")
    ELSE IF After(l.authCode.ExpiresAt) THEN ErrorResponse(400, "code_expired")
    ELSE IF l.authCode.ClientID # l.clientID THEN ErrorResponse(401, "invalid_client")
    ELSE IF ~verifyPKCE(l.authCode.CodeChallenge, l.verifier)
         THEN ErrorResponse(400, "invalid_request")
    ELSE NoResponse

\* The checks after the lookup, and with a granted exchange uuid.New().
TokenCheck(p) ==
    /\ pc[p] = "t_check"
    /\ IF TokenValidate(locals[p]) # NoResponse
       THEN /\ resp' = [resp EXCEPT ![p] = TokenValidate(locals[p])]
            /\ pc' = [pc EXCEPT ![p] = "idle"]
            /\ UNCHANGED <<nextId, locals>>
       ELSE /\ nextId' = nextId + 1
            /\ locals' = [locals EXCEPT ![p].token = nextId]
            /\ pc' = [pc EXCEPT ![p] = "t_put"]
            /\ UNCHANGED resp
    /\ UNCHANGED <<codeStore, tokenStore, mu, now, ticks, started, issued, grants, attempts, found, rejected>>

\* NewAccessToken that expires at once.
NewAccessTokenNoTTL(l, t) ==
    [Token |-> l.token, ClientID |-> l.clientID, ExpiresAt |-> t]

\* The AccessToken that handleToken stores at time t.
NewAccessToken(l, t) ==
    [Token |-> l.token, ClientID |-> l.clientID, ExpiresAt |-> t + TokenTTL]

\* mu.Lock(); tokenStore[token] = AccessToken{...}
TokenPut(p) ==
    /\ pc[p] = "t_put"
    /\ Lock(p)
    /\ tokenStore' = MapPut(tokenStore, locals[p].token, NewAccessToken(locals[p], now))
    /\ grants' = MapPut(grants, locals[p].token,
                        [code |-> locals[p].code, verifier |-> locals[p].verifier,
                         clientID |-> locals[p].clientID, at |-> now])
    /\ pc' = [pc EXCEPT ![p] = "t_unlock2"]
    /\ UNCHANGED <<codeStore, now, ticks, nextId, locals, resp, started, issued,
                   attempts, found, rejected>>

\* The JSON body {access_token, token_type: "Bearer", expires_in: 3600}.
TokenResponse(l) ==
    [status |-> 200, body |-> "Bearer", id |-> l.token, state |-> "",
     expires_in |-> ExpiresIn]

\* mu.Unlock(), then the token response.
TokenUnlock2(p) ==
    /\ pc[p] = "t_unlock2"
    /\ Unlock(p)
    /\ resp' = [resp EXCEPT ![p] = TokenResponse(locals[p])]
    /\ pc' = [pc EXCEPT ![p] = "idle"]
    /\ UNCHANGED <<codeStore, tokenStore, now, ticks, nextId, locals, started,
                   issued, grants, attempts, found, rejected>>

(* ---------------------------- handleUserInfo --------------------------- *)

\* strings.HasPrefix(authHeader, "Bearer ")
HasBearerPrefix(q) == q.prefix = "Bearer "

\* A request arrives: the Authorization header.
UserInfoBegin(p, q) ==
    /\ Accept(p)
    /\ q.rest \in Nameable
    /\ IF ~HasBearerPrefix(q)
       THEN /\ resp' = [resp EXCEPT ![p] = ErrorResponse(401, "Unauthorized")]
            /\ locals' = [locals EXCEPT ![p] = NoLocals]
            /\ UNCHANGED pc
       ELSE /\ locals' = [locals EXCEPT ![p] =
                   [NoLocals EXCEPT !.handler = "userinfo", !.token = q.rest]]
            /\ resp' = [resp EXCEPT ![p] = NoResponse]
            /\ pc' = [pc EXCEPT ![p] = "u_get"]
    /\ UNCHANGED <<codeStore, tokenStore, mu, now, ticks, nextId, issued, grants, attempts, found, rejected>>

\* UserInfoGet that takes the token out of the store, as handleToken takes
\* a code.
UserInfoGetTake(p) ==
    /\ pc[p] = "u_get"
    /\ Lock(p)
    /\ locals' = [locals EXCEPT
           ![p].exists = locals[p].token \in DOMAIN tokenStore,
           ![p].accessToken = MapGet(tokenStore, locals[p].token, ZeroAccessToken)]
    /\ tokenStore' = MapDelete(tokenStore, locals[p].token)
    /\ pc' = [pc EXCEPT ![p] = "u_unlock"]
    /\ UNCHANGED <<codeStore, now, ticks, nextId, resp, started,
                   issued, grants, attempts, found, rejected>>

\* mu.Lock(); accessToken, exists := tokenStore[token]
UserInfoGet(p) ==
    /\ pc[p] = "u_get"
    /\ Lock(p)
    /\ locals' = [locals EXCEPT
           ![p].exists = locals[p].token \in DOMAIN tokenStore,
           ![p].accessToken = MapGet(tokenStore, locals[p].token, ZeroAccessToken)]
    /\ pc' = [pc EXCEPT ![p] = "u_unlock"]
    /\ UNCHANGED <<codeStore, tokenStore, now, ticks, nextId, resp, started,
                   issued, grants, attempts, found, rejected>>

\* mu.Unlock()
UserInfoUnlock(p) ==
    /\ pc[p] = "u_unlock"
    /\ Unlock(p)
    /\ pc' = [pc EXCEPT ![p] = "u_check"]
    /\ UNCHANGED <<codeStore, tokenStore, now, ticks, nextId, locals, resp, started,
                   issued, grants, attempts, found, rejected>>

\* !exists || time.Now().After(accessToken.ExpiresAt)
TokenRejected(l) == ~l.exists \/ After(l.accessToken.ExpiresAt)

\* The user-claims JSON body.
UserInfoResponse == Response(200, "user_123", 0, "")

\* The check of the looked-up token, and the answer.
UserInfoCheck(p) ==
    /\ pc[p] = "u_check"
    /\ resp' = [resp EXCEPT ![p] =
           IF TokenRejected(locals[p])
           THEN ErrorResponse(401, "Invalid or expired token")
           ELSE UserInfoResponse]
    /\ pc' = [pc EXCEPT ![p] = "idle"]
    /\ UNCHANGED <<codeStore, tokenStore, mu, now, ticks, nextId, locals, started,
                   issued, grants, attempts, found, rejected>>

(* ------------------------------- clock --------------------------------- *)

\* The amounts of time that pass at once: ten minutes, or an hour.
TickSteps == {CodeTTL, TokenTTL}

\* Tick with a sweeper that drops the tokens that have expired.
TickSweep(d) ==
    /\ ticks < MaxTicks
    /\ ticks' = ticks + 1
    /\ now' = now + d
    /\ tokenStore' = [t \in {k \in DOMAIN tokenStore :
                                 tokenStore[k].ExpiresAt >= now + d} |-> tokenStore[t]]
    /\ UNCHANGED <<codeStore, mu, nextId, pc, locals, resp, started,
                   issued, grants, attempts, found, rejected>>

\* Time passes.
Tick(d) ==
    /\ ticks < MaxTicks
    /\ ticks' = ticks + 1
    /\ now' = now + d
    /\ UNCHANGED <<codeStore, tokenStore, mu, nextId, pc, locals, resp, started,
                   issued, grants, attempts, found, rejected>>

(* ---------------------------- specification ---------------------------- *)

Next ==
    \/ \E p \in Procs, q \in AuthorizeRequests : AuthorizeBegin(p, q)
    \/ \E p \in Procs : AuthorizeStore(p)
    \/ \E p \in Procs : AuthorizeUnlock(p)
    \/ \E p \in Procs : AuthorizeRedirect(p)
    \/ \E p \in Procs, q \in TokenRequests : TokenBegin(p, q)
    \/ \E p \in Procs : TokenLookup(p)
    \/ \E p \in Procs : TokenDelete(p)
    \/ \E p \in Procs : TokenUnlock1(p)
    \/ \E p \in Procs : TokenCheck(p)
    \/ \E p \in Procs : TokenPut(p)
    \/ \E p \in Procs : TokenUnlock2(p)
    \/ \E p \in Procs, q \in UserInfoRequests : UserInfoBegin(p, q)
    \/ \E p \in Procs : UserInfoGet(p)
    \/ \E p \in Procs : UserInfoUnlock(p)
    \/ \E p \in Procs : UserInfoCheck(p)
    \/ \E d \in TickSteps : Tick(d)

Spec == Init /\ [][Next]_vars

\* The server after it has turned away one request (a GET on /token): the
\* stores are as constructed, and one request of the budget is spent.
InitShort ==
    /\ codeStore = EmptyMap
    /\ tokenStore = EmptyMap
    /\ mu = 0
    /\ now = 0
    /\ ticks = 0
    /\ nextId = 1
    /\ pc = [p \in Procs |-> "idle"]
    /\ locals = [p \in Procs |-> NoLocals]
    /\ resp = [p \in Procs |->
                  IF p = 1 THEN ErrorResponse(405, "Method not allowed")
                  ELSE NoResponse]
    /\ started = 1
    /\ issued = EmptyMap
    /\ grants = EmptyMap
    /\ attempts = [c \in IdsOrNone |-> 0]
    /\ found = [c \in IdsOrNone |-> 0]
    /\ rejected = {}

\* The same server and the same steps, from InitShort: the behaviours of
\* Spec that begin with that rejected request.
SpecShort == InitShort /\ [][Next]_vars

\* The code_verifier values of the PKCE inputs: those of Verifiers, one that
\* differs from the first in its last character, and the empty string of a
\* form without the field.
PkceVerifiers == Verifiers \cup {"secret-verifier-strinh", ""}

\* The code_challenge values of the PKCE inputs: the hash of each verifier,
\* and one that differs from the first hash in its last character.
PkceChallenges ==
    {S256(v) : v \in PkceVerifiers}
        \cup {"LQZxoESZIZMv7j_6u2jBWnivm0jsDelp3OLcKeo64S5"}

\* The server when handleAuthorize has issued code 1 for challenge c, and a
\* /token request with verifier v and the registered client id has taken
\* the code out of the store and is about to make its checks.
InitPKCE ==
    \E c \in PkceChallenges, v \in PkceVerifiers :
        LET authCode ==
                NewAuthCode([NoLocals EXCEPT !.code = 1, !.challenge = c,
                                             !.method = "S256"], 0)
        IN  /\ codeStore = EmptyMap
            /\ tokenStore = EmptyMap
            /\ mu = 0
            /\ now = 0
            /\ ticks = 0
            /\ nextId = 2
            /\ pc = [p \in Procs |-> IF p = 1 THEN "t_check" ELSE "idle"]
            /\ locals = [p \in Procs |->
                   IF p = 1
                   THEN [NoLocals EXCEPT !.handler = "token", !.code = 1,
                                         !.verifier = v, !.clientID = ClientID,
                                         !.exists = TRUE, !.authCode = authCode,
                                         !.nth = 1, !.liveAtTake = TRUE]
                   ELSE NoLocals]
            /\ resp = [p \in Procs |-> NoResponse]
            /\ started = 2
            /\ issued = MapPut(EmptyMap, 1, authCode)
            /\ grants = EmptyMap
            /\ attempts = [k \in IdsOrNone |-> IF k = 1 THEN 1 ELSE 0]
            /\ found = [k \in IdsOrNone |-> IF k = 1 THEN 1 ELSE 0]
            /\ rejected = {}

\* The server after it has answered one valid /authorize request: code 1
\* is stored and the client has it.
InitIssued ==
    LET l == AuthorizeLocals(
                 [client_id |-> ClientID, redirect_uri |-> RedirectURI,
                  response_type |-> "code",
                  code_challenge |-> S256("secret-verifier-string"),
                  code_challenge_method |-> "S256", state |-> "xyz123"], 1)
    IN  /\ codeStore = MapPut(EmptyMap, 1, NewAuthCode(l, 0))
        /\ tokenStore = EmptyMap
        /\ mu = 0
        /\ now = 0
        /\ ticks = 0
        /\ nextId = 2
        /\ pc = [p \in Procs |-> "idle"]
        /\ locals = [p \in Procs |-> IF p = 1 THEN l ELSE NoLocals]
        /\ resp = [p \in Procs |-> IF p = 1 THEN Redirect(l) ELSE NoResponse]
        /\ started = 1
        /\ issued = MapPut(EmptyMap, 1, NewAuthCode(l, 0))
        /\ grants = EmptyMap
        /\ attempts = [c \in IdsOrNone |-> 0]
        /\ found = [c \in IdsOrNone |-> 0]
        /\ rejected = {}

\* The same server and the same steps, from InitIssued.
SpecIssued == InitIssued /\ [][Next]_vars

\* A step of the request on slot p after its arrival.
HandlerStep(p) ==
    \/ AuthorizeStore(p)
    \/ AuthorizeUnlock(p)
    \/ AuthorizeRedirect(p)
    \/ TokenLookup(p)
    \/ TokenDelete(p)
    \/ TokenUnlock1(p)
    \/ TokenCheck(p)
    \/ TokenPut(p)
    \/ TokenUnlock2(p)
    \/ UserInfoGet(p)
    \/ UserInfoUnlock(p)
    \/ UserInfoCheck(p)

\* The scheduler runs every goroutine that can take a step; a goroutine at
\* mu.Lock() can take one when mu is free.
Fairness == \A p \in Procs : WF_vars(HandlerStep(p))

\* Spec under fair scheduling.
FairSpec == Init /\ [][Next]_vars /\ Fairness

\* The same server and the same steps, from InitPKCE.
SpecPKCE == InitPKCE /\ [][Next]_vars

(* ------------------------------- claims -------------------------------- *)

\* The request on slot p has been answered.
Finished(p) == pc[p] = "idle" /\ resp[p] # NoResponse

InvalidGrant == ErrorResponse(400, "invalid_grant")

\* The last request on slot p was a /token request that got a token, and
\* the token is stored.
Granted(p) ==
    /\ locals[p].handler = "token"
    /\ resp[p].status = 200
    /\ resp[p].id = locals[p].token
    /\ locals[p].token \in DOMAIN tokenStore

\* The request on slot p is a /token request past its first checks that
\* names code c with the client id and a verifier of the challenge that
\* handleAuthorize stored with c.
GoodExchange(p, c) ==
    /\ locals[p].handler = "token"
    /\ locals[p].code = c
    /\ locals[p].clientID = issued[c].ClientID
    /\ S256(locals[p].verifier) = issued[c].CodeChallenge

Racers(c) == {p \in Procs : GoodExchange(p, c)}

\* The tokens stored on behalf of code c.
TokensFor(c) == {t \in DOMAIN grants : grants[t].code = c}

\* All lookups of code c were made by two or more such requests, all are
\* answered, and c has not expired.
C1_RaceOver(c) ==
    /\ Cardinality(Racers(c)) >= 2
    /\ attempts[c] = Cardinality(Racers(c))
    /\ \A p \in Racers(c) : Finished(p)
    /\ now <= issued[c].ExpiresAt

\* C1: when N >= 2 /token requests with grant_type authorization_code, the
\* matching client_id and the correct code_verifier are the only ones to
\* name a stored code, and the code has not expired, exactly one of them is
\* answered 200 with an access token and the N-1 others invalid_grant.
C1_ExactlyOneWinner ==
    \A c \in DOMAIN issued :
        C1_RaceOver(c) =>
            \E w \in Racers(c) :
                /\ Granted(w)
                /\ \A o \in Racers(c) \ {w} : resp[o] = InvalidGrant

C1_Witness == \E c \in DOMAIN issued : C1_RaceOver(c)

\* C2: no code is found present by more than one lookup of handleToken, and
\* the token store holds at most one token on behalf of any code, each on
\* behalf of a code that handleAuthorize issued.
C2_AtMostOneTokenPerCode ==
    /\ \A c \in IdsOrNone : found[c] <= 1
    /\ DOMAIN tokenStore = DOMAIN grants
    /\ \A t \in DOMAIN grants : grants[t].code \in DOMAIN issued
    /\ \A c \in DOMAIN issued : Cardinality(TokensFor(c)) <= 1

C2_Witness ==
    \E c \in DOMAIN issued :
        /\ Cardinality(TokensFor(c)) = 1
        /\ attempts[c] >= 2

\* The request on slot p is a /token request that looked code c up.
Exchange(p, c) ==
    /\ locals[p].handler = "token"
    /\ locals[p].code = c
    /\ locals[p].nth >= 1

\* C3: a first exchange attempt on an issued code, with the matching
\* client_id and the correct verifier, before the code expires, is answered
\* 200 and its token is the only one stored for the code; every second or
\* later attempt on the code, whatever its verifier, is answered
\* invalid_grant.
C3_FirstThenReplay ==
    \A p \in Procs, c \in DOMAIN issued :
        (Finished(p) /\ Exchange(p, c)) =>
            /\ (locals[p].nth = 1 /\ GoodExchange(p, c) /\ now <= issued[c].ExpiresAt)
                   => (Granted(p) /\ TokensFor(c) = {resp[p].id})
            /\ locals[p].nth >= 2 => resp[p] = InvalidGrant

C3_Witness ==
    \E p \in Procs, c \in DOMAIN issued :
        /\ Finished(p) /\ Exchange(p, c)
        /\ locals[p].nth = 2
        /\ S256(locals[p].verifier) # issued[c].CodeChallenge
        /\ resp[p] = InvalidGrant
        /\ Cardinality(TokensFor(c)) = 1

\* A request is between its lookup of code c and its delete.
Deleting(c) == \E p \in Procs : pc[p] = "t_delete" /\ locals[p].code = c

\* C4: once a /token request has looked an issued code up and deleted it,
\* whatever the outcome of the request, the code is not in the code store,
\* and a code that has left the code store never returns to it.
C4_ConsumedForGood ==
    /\ [](\A c \in DOMAIN issued :
              (attempts[c] >= 1 /\ ~Deleting(c)) => c \notin DOMAIN codeStore)
    /\ [][\A c \in DOMAIN issued :
              c \notin DOMAIN codeStore => c \notin DOMAIN codeStore']_vars

C4_Witness ==
    \E p \in Procs, c \in DOMAIN issued :
        /\ Finished(p) /\ Exchange(p, c)
        /\ resp[p].status # 200
        /\ locals[p].exists
        /\ c \notin DOMAIN codeStore

\* The request on slot p found its code, and its verifier does not hash to
\* the challenge stored with the code.
C5_Mismatch(p) ==
    /\ locals[p].handler = "token"
    /\ locals[p].exists
    /\ S256(locals[p].verifier) # locals[p].authCode.CodeChallenge

\* C5: every stored token was given for a code whose stored challenge is
\* the S256 hash of the request's verifier and whose stored client id is
\* the request's client_id; a request whose verifier does not match gets no
\* token, and is answered invalid_request when the code has not expired and
\* the client_id matches.
C5_PkceBinding ==
    /\ \A t \in DOMAIN tokenStore :
           /\ t \in DOMAIN grants
           /\ grants[t].code \in DOMAIN issued
           /\ S256(grants[t].verifier) = issued[grants[t].code].CodeChallenge
           /\ grants[t].clientID = issued[grants[t].code].ClientID
           /\ tokenStore[t].ClientID = grants[t].clientID
    /\ \A p \in Procs :
           C5_Mismatch(p) =>
               /\ locals[p].token = 0
               /\ pc[p] \notin {"t_put", "t_unlock2"}
               /\ Finished(p) => resp[p].status # 200
               /\ (/\ Finished(p)
                   /\ locals[p].clientID = locals[p].authCode.ClientID
                   /\ now <= locals[p].authCode.ExpiresAt)
                      => resp[p] = ErrorResponse(400, "invalid_request")

C5_Witness ==
    \E p \in Procs :
        /\ C5_Mismatch(p)
        /\ Finished(p)
        /\ resp[p] = ErrorResponse(400, "invalid_request")
        /\ tokenStore = EmptyMap

CodeExpired == ErrorResponse(400, "code_expired")

\* The step ends the checks of handleToken on slot p.
CheckStep(p) == pc[p] = "t_check" /\ pc'[p] # "t_check"

\* C6: a /token request that found its code, and makes its expiry check
\* after the code's ExpiresAt, is answered code_expired, with the code out
\* of the code store and no token stored for it; and every other /token
\* request that named the code is answered invalid_grant.
C6_ExpiredCodeIsGone ==
    /\ [][\A p \in Procs :
              (CheckStep(p) /\ locals[p].exists /\ now > locals[p].authCode.ExpiresAt)
                  => /\ resp'[p] = CodeExpired
                     /\ pc'[p] = "idle"
                     /\ locals[p].code \notin DOMAIN codeStore'
                     /\ TokensFor(locals[p].code)' = {}]_vars
    /\ [](\A p \in Procs :
              (Finished(p) /\ locals[p].handler = "token" /\ resp[p] = CodeExpired)
                  => /\ locals[p].code \notin DOMAIN codeStore
                     /\ TokensFor(locals[p].code) = {}
                     /\ \A o \in Procs \ {p} :
                            (Finished(o) /\ Exchange(o, locals[p].code))
                                => resp[o] = InvalidGrant)
    /\ [][\A p \in Procs :
              (CheckStep(p) /\ locals[p].nth >= 2) => resp'[p] = InvalidGrant]_vars

C6_Witness ==
    \E p \in Procs, o \in Procs :
        /\ Finished(p) /\ locals[p].handler = "token" /\ resp[p] = CodeExpired
        /\ o # p
        /\ Finished(o) /\ Exchange(o, locals[p].code)
        /\ resp[o] = InvalidGrant

\* The checks of handleToken after the lookup that fail for locals l, by
\* their place in the order.
C7_Failing(l) ==
    {i \in 1..4 :
        \/ i = 1 /\ ~l.exists
        \/ i = 2 /\ now > l.authCode.ExpiresAt
        \/ i = 3 /\ l.authCode.ClientID # l.clientID
        \/ i = 4 /\ S256(l.verifier) # l.authCode.CodeChallenge}

C7_Error(i) ==
    CASE i = 1 -> ErrorResponse(400, "invalid_grant")
      [] i = 2 -> ErrorResponse(400, "code_expired")
      [] i = 3 -> ErrorResponse(401, "invalid_client")
      [] i = 4 -> ErrorResponse(400, "invalid_request")

\* The step is the arrival of a request on slot p.
BeginStep(p) == pc[p] = "idle" /\ started' = started + 1

\* The /token requests with method POST and a readable form.
C7_PostRequests ==
    {q : q \in {r \in TokenRequests : r.method = "POST" /\ r.form_ok}}

FirstOf(S) == CHOOSE i \in S : \A j \in S : i <= j

\* C7: a POST /token request with a readable form is answered
\* unsupported_grant_type (400) when its grant_type is not
\* authorization_code, whatever else is wrong with it; else it goes on to
\* the lookup, and is then answered with the error of the first failing
\* check in the order invalid_grant (400), code_expired (400),
\* invalid_client (401), invalid_request (400), and granted when none fails.
C7_TokenCheckOrder ==
    [][/\ \A p \in Procs :
              BeginStep(p) =>
                  \A q \in C7_PostRequests :
                      TokenBegin(p, q) =>
                          IF q.grant_type # "authorization_code"
                          THEN /\ resp'[p] = ErrorResponse(400, "unsupported_grant_type")
                               /\ pc'[p] = "idle"
                          ELSE /\ pc'[p] = "t_lookup"
                               /\ locals'[p].code = q.code
                               /\ locals'[p].verifier = q.code_verifier
                               /\ locals'[p].clientID = q.client_id
       /\ \A p \in Procs :
              CheckStep(p) =>
                  IF C7_Failing(locals[p]) = {}
                  THEN pc'[p] = "t_put" /\ resp'[p] = NoResponse
                  ELSE /\ resp'[p] = C7_Error(FirstOf(C7_Failing(locals[p])))
                       /\ pc'[p] = "idle"]_vars

C7_Witness ==
    \E p \in Procs :
        /\ Finished(p)
        /\ locals[p].handler = "token"
        /\ locals[p].exists
        /\ locals[p].authCode.ClientID # locals[p].clientID
        /\ S256(locals[p].verifier) # locals[p].authCode.CodeChallenge
        /\ resp[p] = ErrorResponse(401, "invalid_client")

\* The validations of handleAuthorize that fail for request q, by their
\* place in the order.
C8_Failing(q) ==
    {i \in 1..4 :
        \/ i = 1 /\ q.client_id # ClientID
        \/ i = 2 /\ q.redirect_uri # RedirectURI
        \/ i = 3 /\ q.response_type # "code"
        \/ i = 4 /\ (q.code_challenge = "" \/ q.code_challenge_method # "S256")}

C8_Error(i) ==
    CASE i = 1 -> "Invalid client_id"
      [] i = 2 -> "Invalid redirect_uri"
      [] i = 3 -> "Unsupported response_type"
      [] i = 4 -> "PKCE required (code_challenge + S256)"

\* The /authorize requests that fail a validation.
C8_InvalidRequests ==
    {q : q \in {r \in AuthorizeRequests : C8_Failing(r) # {}}}

\* The /authorize requests that pass every validation.
C9_ValidRequests ==
    {q : q \in {r \in AuthorizeRequests : C8_Failing(r) = {}}}

\* C8: an /authorize request that fails a validation is answered 400 with
\* the error of the first failing one in the order client_id, redirect_uri,
\* response_type, PKCE; the request ends there, no code is generated, and
\* the code store and the token store are unchanged.
C8_AuthorizeValidation ==
    [][\A p \in Procs :
         BeginStep(p) =>
           \A q \in C8_InvalidRequests :
             AuthorizeBegin(p, q) =>
               /\ resp'[p] = ErrorResponse(400, C8_Error(FirstOf(C8_Failing(q))))
               /\ pc'[p] = "idle"
               /\ nextId' = nextId
               /\ codeStore' = codeStore
               /\ tokenStore' = tokenStore]_vars

C8_Witness ==
    \E p \in Procs :
        /\ resp[p] = ErrorResponse(400, "Invalid redirect_uri")
        /\ DOMAIN codeStore = {1}
        /\ nextId = 2

\* C9: a valid /authorize request keeps the request's state and challenge;
\* it stores, under a key never used before, an AuthCode with that key, the
\* registered client id and redirect URI, the request's challenge, method
\* S256 and ExpiresAt ten minutes after the time of the store; and when it
\* answers, with a 302 to RedirectURI carrying the code and the state, that
\* entry is in the code store.
C9_AuthorizeIssues ==
    [][\A p \in Procs :
           /\ BeginStep(p) => \A q \in C9_ValidRequests :
                  AuthorizeBegin(p, q) =>
                      /\ pc'[p] = "a_store"
                      /\ locals'[p].state = q.state
                      /\ locals'[p].challenge = q.code_challenge
                      /\ locals'[p].code \notin DOMAIN issued \cup DOMAIN grants
                      /\ \A o \in Procs \ {p} :
                             pc[o] # "idle" =>
                                 /\ locals[o].code # locals'[p].code
                                 /\ locals[o].token # locals'[p].code
           /\ (pc[p] = "a_store" /\ pc'[p] = "a_unlock") =>
                  /\ locals'[p] = locals[p]
                  /\ locals[p].code \notin DOMAIN codeStore \cup DOMAIN issued
                  /\ locals[p].code \in DOMAIN codeStore'
                  /\ codeStore'[locals[p].code] =
                         [Code |-> locals[p].code, ClientID |-> ClientID,
                          RedirectURI |-> RedirectURI,
                          CodeChallenge |-> locals[p].challenge,
                          CodeChallengeMethod |-> "S256",
                          ExpiresAt |-> now + CodeTTL]
           /\ (pc[p] = "a_redirect" /\ pc'[p] = "idle") =>
                  /\ resp'[p] = Response(302, RedirectURI, locals[p].code, locals[p].state)
                  /\ locals[p].code \in DOMAIN codeStore'
                  /\ codeStore'[locals[p].code] = issued[locals[p].code]
                  /\ issued[locals[p].code] =
                         [Code |-> locals[p].code, ClientID |-> ClientID,
                          RedirectURI |-> RedirectURI,
                          CodeChallenge |-> locals[p].challenge,
                          CodeChallengeMethod |-> "S256",
                          ExpiresAt |-> issued[locals[p].code].ExpiresAt]]_vars

C9_Witness ==
    \E p \in Procs :
        /\ Finished(p)
        /\ locals[p].handler = "authorize"
        /\ resp[p] = Response(302, RedirectURI, locals[p].code, "abc456")
        /\ locals[p].code \in DOMAIN codeStore
        /\ codeStore[locals[p].code].ExpiresAt = now

InvalidToken == ErrorResponse(401, "Invalid or expired token")

\* C10: a /userinfo request that found its token is answered 200 when its
\* expiry check is made at or before the stored token's ExpiresAt, and 401
\* 'Invalid or expired token' when it is made after; and no step removes a
\* stored token or changes its ExpiresAt.
C10_TokenLifetime ==
    [][/\ \A p \in Procs :
              (pc[p] = "u_check" /\ pc'[p] # "u_check" /\ locals[p].exists) =>
                  /\ locals[p].token \in DOMAIN tokenStore
                  /\ resp'[p] = IF now <= tokenStore[locals[p].token].ExpiresAt
                                THEN UserInfoResponse
                                ELSE InvalidToken
       /\ \A t \in DOMAIN tokenStore :
              /\ t \in DOMAIN tokenStore'
              /\ tokenStore'[t].ExpiresAt = tokenStore[t].ExpiresAt
              /\ tokenStore[t].ExpiresAt = grants[t].at + TokenTTL]_vars

C10_Witness ==
    \E p \in Procs :
        /\ Finished(p)
        /\ locals[p].handler = "userinfo"
        /\ locals[p].exists
        /\ resp[p] = InvalidToken

\* The step stores the token of the /token request on slot p.
PutStep(p) == pc[p] = "t_put" /\ pc'[p] = "t_unlock2"

\* C11: a granted exchange takes a token value never used before; it
\* stores under that value, before it responds, an AccessToken with that
\* value, the request's client_id and ExpiresAt one hour after the time of
\* the store; it answers 200 with that value, token_type Bearer and
\* expires_in 3600 while the entry is in the token store; and a /userinfo
\* request bearing the token, answered before any time has passed since the
\* store (or any time up to ExpiresAt), is answered 200.
C11_TokenIssued ==
    /\ [][\A p \in Procs :
              /\ (CheckStep(p) /\ pc'[p] = "t_put") =>
                     /\ locals'[p].token # 0
                     /\ locals'[p].token \notin DOMAIN tokenStore \cup DOMAIN issued
                     /\ \A o \in Procs \ {p} :
                            pc[o] # "idle" =>
                                /\ locals[o].code # locals'[p].token
                                /\ locals[o].token # locals'[p].token
              /\ PutStep(p) =>
                     /\ locals'[p] = locals[p]
                     /\ resp'[p] = NoResponse
                     /\ locals[p].token \notin DOMAIN tokenStore
                     /\ DOMAIN tokenStore' = DOMAIN tokenStore \cup {locals[p].token}
                     /\ tokenStore'[locals[p].token] =
                            [Token |-> locals[p].token,
                             ClientID |-> locals[p].clientID,
                             ExpiresAt |-> now + TokenTTL]
              /\ (pc[p] = "t_unlock2" /\ pc'[p] = "idle") =>
                     /\ resp'[p] = [status |-> 200, body |-> "Bearer",
                                    id |-> locals[p].token, state |-> "",
                                    expires_in |-> 3600]
                     /\ locals[p].token \in DOMAIN tokenStore'
                     /\ tokenStore'[locals[p].token].Token = locals[p].token
                     /\ tokenStore'[locals[p].token].ClientID = locals[p].clientID
                     /\ tokenStore'[locals[p].token].ExpiresAt
                            = grants[locals[p].token].at + TokenTTL]_vars
    /\ [](\A p \in Procs :
             (/\ Finished(p)
              /\ locals[p].handler = "userinfo"
              /\ locals[p].token \in DOMAIN grants
              /\ now <= grants[locals[p].token].at + TokenTTL)
                 => resp[p] = UserInfoResponse)

C11_Witness ==
    \E o \in Procs :
        /\ Finished(o) /\ locals[o].handler = "userinfo"
        /\ locals[o].token \in DOMAIN tokenStore
        /\ tokenStore[locals[o].token].ExpiresAt = now + TokenTTL
        /\ tokenStore[locals[o].token].ClientID = ClientID
        /\ resp[o] = UserInfoResponse

\* C12: no step removes a token from the token store or changes a stored
\* entry; the token store changes only in the store step of a /token
\* request that passed every check, which adds one entry under a new key;
\* and a finished /token request has a token in the store exactly when it
\* was answered 200.
C12_TokenStoreGrows ==
    /\ [][/\ \A t \in DOMAIN tokenStore :
                 t \in DOMAIN tokenStore' /\ tokenStore'[t] = tokenStore[t]
          /\ tokenStore' # tokenStore =>
                 \E p \in Procs :
                     /\ PutStep(p)
                     /\ locals[p].exists
                     /\ locals[p].token \notin DOMAIN tokenStore
                     /\ DOMAIN tokenStore' = DOMAIN tokenStore \cup {locals[p].token}
          /\ \A p \in Procs :
                 (CheckStep(p) /\ resp'[p] # NoResponse) =>
                     /\ pc'[p] = "idle"
                     /\ tokenStore' = tokenStore
                     /\ locals[p].token = 0]_vars
    /\ [](\A p \in Procs :
             (Finished(p) /\ locals[p].handler = "token") =>
                 /\ resp[p].status = 200 <=> locals[p].token \in DOMAIN tokenStore
                 /\ resp[p].status # 200 => locals[p].token = 0)
    /\ [](Cardinality(DOMAIN tokenStore) = Cardinality(DOMAIN grants))

C12_Witness ==
    \E p \in Procs :
        /\ Finished(p) /\ locals[p].handler = "token"
        /\ locals[p].nth = 2
        /\ resp[p] = InvalidGrant
        /\ Cardinality(DOMAIN tokenStore) = 1

\* The /userinfo requests, enumerated.
C13_Requests == {q : q \in UserInfoRequests}

\* The step is a step of handleUserInfo on slot p after the arrival.
UserInfoStep(p) ==
    /\ pc[p] \in {"u_get", "u_unlock", "u_check"}
    /\ pc'[p] # pc[p]

\* C13: no step of handleUserInfo changes the code store or the token
\* store; a request whose header does not start with 'Bearer ' is answered
\* 401 at once; a request whose token the lookup did not find, or whose
\* token has expired when it is checked, is answered 401; and a request is
\* answered 200 exactly when the lookup found its token and the check is
\* made no later than the token's ExpiresAt, the token then being a key of
\* the token store.
C13_UserInfoReadOnly ==
    [][\A p \in Procs :
           /\ BeginStep(p) => \A q \in C13_Requests :
                  UserInfoBegin(p, q) =>
                      /\ codeStore' = codeStore
                      /\ tokenStore' = tokenStore
                      /\ IF q.prefix # "Bearer "
                         THEN /\ resp'[p] = ErrorResponse(401, "Unauthorized")
                              /\ pc'[p] = "idle"
                         ELSE /\ pc'[p] = "u_get"
                              /\ locals'[p].token = q.rest
           /\ UserInfoStep(p) =>
                  /\ codeStore' = codeStore
                  /\ tokenStore' = tokenStore
           /\ (pc[p] = "u_get" /\ pc'[p] = "u_unlock") =>
                  /\ locals'[p].exists = (locals[p].token \in DOMAIN tokenStore)
                  /\ locals'[p].exists =>
                         locals'[p].accessToken = tokenStore[locals[p].token]
           /\ (pc[p] = "u_check" /\ pc'[p] = "idle") =>
                  /\ resp'[p].status \in {200, 401}
                  /\ resp'[p].status = 200 <=>
                         /\ locals[p].exists
                         /\ now <= locals[p].accessToken.ExpiresAt
                  /\ resp'[p].status = 200 =>
                         /\ resp'[p] = UserInfoResponse
                         /\ locals[p].token \in DOMAIN tokenStore
                         /\ now <= tokenStore[locals[p].token].ExpiresAt
                  /\ resp'[p].status = 401 => resp'[p] = InvalidToken]_vars

C13_Witness ==
    \E p \in Procs :
        /\ Finished(p)
        /\ locals[p].handler = "userinfo"
        /\ locals[p].exists
        /\ resp[p] = InvalidToken
        /\ locals[p].token \in DOMAIN tokenStore
        /\ tokenStore[locals[p].token] = locals[p].accessToken

\* The checks of handleToken before verifyPKCE pass for the request on
\* slot p.
C14_ReachesPkce(p) ==
    /\ locals[p].exists
    /\ now <= locals[p].authCode.ExpiresAt
    /\ locals[p].authCode.ClientID = locals[p].clientID

\* C14: verifyPKCE(challenge, verifier) is true exactly when the unpadded
\* base64url of the SHA-256 of the verifier is the challenge, for every
\* pair of inputs: a /token request that comes to the PKCE check is granted
\* exactly when its verifier hashes to the stored challenge, and is
\* answered invalid_request otherwise; and the step that makes the check
\* changes neither store nor the mutex, whoever holds it.
C14_VerifyPkce ==
    /\ [](\A c \in PkceChallenges \cup {""}, v \in PkceVerifiers :
             verifyPKCE(c, v) <=> (c = S256(v)))
    /\ [][\A p \in Procs :
              (CheckStep(p) /\ C14_ReachesPkce(p)) =>
                  /\ pc'[p] = "t_put"
                         <=> S256(locals[p].verifier) = locals[p].authCode.CodeChallenge
                  /\ pc'[p] # "t_put" =>
                         /\ pc'[p] = "idle"
                         /\ resp'[p] = ErrorResponse(400, "invalid_request")
                  /\ codeStore' = codeStore
                  /\ tokenStore' = tokenStore
                  /\ mu' = mu]_vars

C14_Witness ==
    \E p \in Procs :
        /\ pc[p] = "t_put"
        /\ locals[p].verifier = "another-verifier-string"
        /\ locals[p].authCode.CodeChallenge = S256("another-verifier-string")
        /\ mu \notin {0, p}

\* C15: the expiry check of handleToken is made in the critical section of
\* the lookup and delete, that is while the request holds mu, and a request
\* whose code had not expired at the time of the delete is never answered
\* code_expired.
C15_ExpiryAtomic ==
    [][\A p \in Procs :
           CheckStep(p) =>
               /\ mu = p
               /\ locals[p].liveAtTake => resp'[p] # CodeExpired]_vars

C15_Witness ==
    \E p \in Procs :
        /\ Finished(p)
        /\ locals[p].handler = "token"
        /\ locals[p].liveAtTake
        /\ resp[p] = CodeExpired
        /\ locals[p].code \notin DOMAIN codeStore

\* The request on slot p is between a mu.Lock() and the mu.Unlock() after
\* it.
InCritical(p) ==
    pc[p] \in {"a_unlock", "t_delete", "t_unlock1", "t_unlock2", "u_unlock"}

\* The request on slot p is at a mu.Lock().
AtLock(p) == pc[p] \in {"a_store", "t_lookup", "t_put", "u_get"}

\* The step of slot p reads or writes a store.
StoreAccess(p) ==
    \/ pc[p] = "a_store" /\ pc'[p] = "a_unlock"
    \/ pc[p] = "t_lookup" /\ pc'[p] = "t_delete"
    \/ pc[p] = "t_delete" /\ pc'[p] = "t_unlock1"
    \/ pc[p] = "t_put" /\ pc'[p] = "t_unlock2"
    \/ pc[p] = "u_get" /\ pc'[p] = "u_unlock"

\* C16: a request between a Lock and its Unlock holds mu, so no two
\* requests are there at once, and mu is held by no other request; every
\* step that reads or writes codeStore or tokenStore is made by a request
\* that holds mu when the step ends, and a step that changes a store or
\* hands a store's entry to a request is such a step.
C16_MutexDiscipline ==
    /\ [](\A p \in Procs : InCritical(p) <=> mu = p)
    /\ [](\A p \in Procs, o \in Procs :
             (InCritical(p) /\ InCritical(o)) => p = o)
    /\ [][/\ \A p \in Procs :
                 StoreAccess(p) => (mu' = p /\ mu \in {0, p})
          /\ (codeStore' # codeStore \/ tokenStore' # tokenStore) =>
                 \E p \in Procs : StoreAccess(p)
          /\ \A p \in Procs :
                 (\/ locals'[p].authCode # locals[p].authCode
                  \/ locals'[p].accessToken # locals[p].accessToken)
                     => (StoreAccess(p) \/ pc[p] = "idle")]_vars

C16_Witness ==
    \E p \in Procs, o \in Procs :
        /\ pc[p] = "t_delete"
        /\ mu = p
        /\ pc[o] = "t_lookup"
        /\ locals[o].code = locals[p].code
        /\ locals[p].code \in DOMAIN codeStore

\* The step ends the request on slot p.
FinishStep(p) == pc[p] # "idle" /\ pc'[p] = "idle"

\* C17: under fair scheduling every request in progress, on every path,
\* comes to its end, answered and not holding mu; whenever a request is in
\* progress some request in progress can take a step; a response is
\* written once per request, at its arrival when it is rejected there and
\* else in the step that ends it; and a slot whose request has ended is
\* free for the next request, whatever the answer was.
C17_EveryRequestFinishes ==
    /\ \A p \in Procs :
           (pc[p] # "idle") ~> (pc[p] = "idle" /\ resp[p] # NoResponse /\ mu # p)
    /\ []((\E p \in Procs : pc[p] # "idle")
              => \E p \in Procs : ENABLED HandlerStep(p))
    /\ [](\A p \in Procs : pc[p] = "idle" => mu # p)
    /\ [](\A p \in Procs : pc[p] # "idle" => resp[p] = NoResponse)
    /\ [][\A p \in Procs :
              /\ FinishStep(p) => (resp[p] = NoResponse /\ resp'[p] # NoResponse)
              /\ resp'[p] # resp[p] => (FinishStep(p) \/ BeginStep(p))
              /\ (pc[p] # "idle" /\ ~FinishStep(p)) => resp'[p] = NoResponse]_vars

C17_Witness ==
    \E p \in Procs, o \in Procs :
        /\ p # o
        /\ Finished(p) /\ resp[p] = InvalidGrant
        /\ Finished(o) /\ resp[o].status = 302
        /\ mu = 0
        /\ started = MaxRequests

\* The /token requests with a method other than POST or a grant_type other
\* than authorization_code.
C18_Rejected ==
    {q : q \in {r \in TokenRequests :
                   r.method # "POST" \/ r.grant_type # "authorization_code"}}

\* C18: a /token request with a method other than POST or a grant_type
\* other than authorization_code is answered at once (405, or 400), and
\* changes neither store; a stored code it names is in the code store after
\* it, with the entry handleAuthorize stored; and the first well-formed
\* request that then names the code, with the matching client_id and
\* verifier and before the code expires, is granted.
C18_RejectedKeepsCode ==
    /\ [][\A p \in Procs :
              BeginStep(p) => \A q \in C18_Rejected :
                  TokenBegin(p, q) =>
                      /\ pc'[p] = "idle"
                      /\ resp'[p] =
                             IF q.method # "POST"
                             THEN ErrorResponse(405, "Method not allowed")
                             ELSE IF ~q.form_ok
                             THEN ErrorResponse(400, "Failed to parse form")
                             ELSE ErrorResponse(400, "unsupported_grant_type")
                      /\ codeStore' = codeStore
                      /\ tokenStore' = tokenStore
                      /\ q.code \in DOMAIN codeStore => q.code \in rejected']_vars
    /\ [][\A c \in rejected' \ rejected :
              /\ c \in DOMAIN codeStore'
              /\ codeStore'[c] = issued[c]]_vars
    /\ [](\A p \in Procs, c \in DOMAIN issued :
             (/\ Finished(p) /\ Exchange(p, c)
              /\ locals[p].afterReject
              /\ locals[p].nth = 1
              /\ GoodExchange(p, c)
              /\ now <= issued[c].ExpiresAt)
                 => Granted(p))

C18_Witness ==
    \E p \in Procs :
        /\ Finished(p)
        /\ Granted(p)
        /\ locals[p].afterReject
        /\ locals[p].code \in rejected

\* C19: every entry of codeStore is stored under its own Code and has the
\* registered client id, the registered redirect URI, a non-empty
\* CodeChallenge and CodeChallengeMethod S256; every entry of tokenStore is
\* stored under its own Token and has the registered client id.
C19_WellFormedStores ==
    /\ \A c \in DOMAIN codeStore :
           /\ codeStore[c].Code = c
           /\ codeStore[c].ClientID = ClientID
           /\ codeStore[c].RedirectURI = RedirectURI
           /\ codeStore[c].CodeChallenge # ""
           /\ codeStore[c].CodeChallengeMethod = "S256"
    /\ \A t \in DOMAIN tokenStore :
           /\ tokenStore[t].Token = t
           /\ tokenStore[t].ClientID = ClientID

C19_Witness ==
    /\ DOMAIN codeStore # {}
    /\ DOMAIN tokenStore # {}
    /\ \E p \in Procs : Finished(p) /\ locals[p].handler = "authorize"

=============================================================================
